---- MODULE Spec2Model ----
(***************************************************************************)
(* GkeEntityProvider                                                       *)
(* (plugins/catalog-backend-module-gcp/src/providers/GkeEntityProvider.ts) *)
(* as a state machine: connect, the function registered with the task      *)
(* runner, refresh with its fan-out of listClusters calls joined by        *)
(* Promise.all, the mapping of cluster records to deferred entities and    *)
(* the single applyMutation call.                                          *)
(***************************************************************************)
EXTENDS Integers, Sequences, FiniteSets, TLC

VARIABLES
  gkeParents,     \* this.gkeParents: the configured parent paths
  upstream,       \* what the cloud API holds for each configured parent
  connection,     \* this.connection: "unset" (undefined) or "sink"
  registered,     \* taskRunner.run was called with the scheduled fn
  pc,             \* position of the refresh in flight: "idle", "awaitClusters", "awaitSink"
  caller,         \* who invoked the refresh in flight: "none", "scheduled", "direct"
  req,            \* per parent index: state of the listClusters promise of the current /
                  \* last refresh ("pending" after its end: it never waited for that one)
  listCalls,      \* per parent index: listClusters calls issued by this refresh
  results,        \* the value array Promise.all is collecting
  outOfOrder,     \* some list promise of this refresh settled before one of a lower index
  stale,          \* list requests of aborted refreshes that are still in flight
  mutations,      \* the applyMutation calls the sink has received, in order
  cycleSinkCalls, \* applyMutation calls made by the current / last refresh
  cycles,         \* refresh invocations started
  last            \* what the last completed refresh did

vars == <<gkeParents, upstream, connection, registered, pc, caller,
          req, listCalls, results, outOfOrder, stale, mutations,
          cycleSinkCalls, cycles, last>>

----------------------------------------------------------------------------
(* Bounds of the model *)

MaxParents == 2
MaxCycles == 2

----------------------------------------------------------------------------
(* JavaScript values *)

Undefined == [t |-> "undefined"]
Null == [t |-> "null"]
Str(s) == [t |-> "string", s |-> s]
Arr(items) == [t |-> "array", items |-> items]

\* !v of JavaScript is the negation of this
Truthy(v) == IF v.t = "string" THEN v.s # "" ELSE v.t \notin {"undefined", "null"}

\* `${v}` inside a template literal
TemplateValue(v) ==
  CASE v.t = "string" -> v.s
    [] v.t = "undefined" -> "undefined"
    [] v.t = "null" -> "null"

\* a || b
OrElse(a, b) == IF Truthy(a) THEN a ELSE b

ANNOTATION_KUBERNETES_API_SERVER == "kubernetes.io/api-server"
ANNOTATION_KUBERNETES_API_SERVER_CA == "kubernetes.io/api-server-certificate-authority"
ANNOTATION_KUBERNETES_AUTH_PROVIDER == "kubernetes.io/auth-provider"

----------------------------------------------------------------------------
(* The pure part of the provider *)

getProviderName == "gcp-gke"

filterOutUndefinedDeferredEntity(e) == e.t # "undefined"

filterOutUndefinedCluster(c) == c.t # "undefined" /\ c.t # "null"

\* mutant: the location key without the provider's name
locationOfBare(cluster) == TemplateValue(cluster.location)

\* const location = `${this.getProviderName()}:${cluster.location}`
locationOf(cluster) == getProviderName \o ":" \o TemplateValue(cluster.location)

\* `https://${cluster.endpoint}`
apiServerOf(cluster) == "https://" \o TemplateValue(cluster.endpoint)

clusterToResource(cluster) ==
  LET location == locationOf(cluster)
  IN IF ~Truthy(cluster.name) \/ ~Truthy(cluster.selfLink)
        \/ ~Truthy(Str(location)) \/ ~Truthy(cluster.endpoint)
     THEN Undefined
     ELSE [t |-> "object",
           locationKey |-> location,
           entity |-> [
             apiVersion |-> "backstage.io/v1alpha1",
             kind |-> "Resource",
             metadata |-> [
               annotations |->
                 (ANNOTATION_KUBERNETES_API_SERVER :> apiServerOf(cluster))
                 @@ (ANNOTATION_KUBERNETES_API_SERVER_CA :> OrElse(cluster.caCert, Str("")).s)
                 @@ (ANNOTATION_KUBERNETES_AUTH_PROVIDER :> "google")
                 @@ ("backstage.io/managed-by-location" :> location)
                 @@ ("backstage.io/managed-by-origin-location" :> location),
               name |-> cluster.name.s,
               namespace |-> "default"],
             spec |-> [type |-> "kubernetes-cluster", owner |-> "unknown"]]]

\* clusters.map(c => this.clusterToResource(c))
mapToResource(clusters) == [k \in 1..Len(clusters) |-> clusterToResource(clusters[k])]

\* response.clusters?.filter(this.filterOutUndefinedCluster) ?? []
listedClusters(response) ==
  IF response.clusters.t \in {"undefined", "null"}
  THEN <<>>
  ELSE SelectSeq(response.clusters.items, filterOutUndefinedCluster)

\* Array.prototype.flat over the array Promise.all resolved with
RECURSIVE flat(_)
flat(arrays) ==
  IF arrays = <<>> THEN <<>>
  ELSE (IF Head(arrays).t = "array" THEN Head(arrays).items ELSE <<>>)
       \o flat(Tail(arrays))

\* mutant: the resources of a refresh pile up on those of the one before
toResourcesAppending(clusters) ==
  (IF mutations = <<>> THEN <<>> ELSE mutations[Len(mutations)].entities)
  \o SelectSeq(mapToResource(clusters), filterOutUndefinedDeferredEntity)

\* clusters.map(c => this.clusterToResource(c)).filter(...) ?? []
toResources(clusters) ==
  SelectSeq(mapToResource(clusters), filterOutUndefinedDeferredEntity)

----------------------------------------------------------------------------
(* The environment: configurations and what the cloud API returns *)

Cluster(name, selfLink, location, endpoint, caCert) ==
  [t |-> "object", name |-> name, selfLink |-> selfLink, location |-> location,
   endpoint |-> endpoint, caCert |-> caCert]

ValidA == Cluster(Str("a"), Str("s"), Str("us"), Str("1.2.3.4"), Undefined)
ValidB == Cluster(Str("b"), Str("sb"), Str("eu"), Str("5.6.7.8"), Str("CERT"))
PartialNoEndpoint == Cluster(Str("c"), Str("sc"), Str("us"), Undefined, Undefined)

Response(clusters) == [clusters |-> clusters]

\* Responses of the cycle-oriented configurations
ResponsePool ==
  { Response(Undefined),
    Response(Arr(<<ValidA>>)),
    Response(Arr(<<Null, ValidB, PartialNoEndpoint>>)),
    Response(Arr(<<ValidB, ValidA>>)) }

\* Every combination of present, absent and empty required fields
RecordPool ==
  { Cluster(n, s, l, e, Undefined) :
      n \in {Undefined, Str(""), Str("a")},
      s \in {Null, Str(""), Str("s")},
      l \in {Undefined, Null, Str(""), Str("us")},
      e \in {Undefined, Str(""), Str("1.2.3.4")} }

RecordResponses ==
  UNION { { Response(Arr(<<c>>)), Response(Arr(<<ValidB, c>>)) } : c \in RecordPool }

ParentName(i) == "p" \o ToString(i)

ParentConfigs == { [i \in 1..n |-> ParentName(i)] : n \in 0..MaxParents }

N == Len(gkeParents)

NoRequests == [i \in 1..N |-> "none"]
NoCalls == [i \in 1..N |-> 0]
Hole == [t |-> "hole"]
NoResults == [i \in 1..N |-> Hole]
Pending(r) == { i \in 1..Len(r) : r[i] = "pending" }

NeverRan == [caller |-> "none", result |-> "none", why |-> "none",
             fn |-> "none", logged |-> {}]

Init ==
  /\ \/ /\ gkeParents \in ParentConfigs
        /\ upstream \in [1..Len(gkeParents) -> ResponsePool]
     \/ /\ gkeParents = <<ParentName(1), ParentName(2)>>
        /\ \E r \in RecordResponses : upstream = <<r, Response(Arr(<<>>))>>
  /\ connection = "unset"
  /\ registered = FALSE
  /\ pc = "idle"
  /\ caller = "none"
  /\ req = NoRequests
  /\ listCalls = NoCalls
  /\ results = NoResults
  /\ outOfOrder = FALSE
  /\ stale = 0
  /\ mutations = <<>>
  /\ cycleSinkCalls = 0
  /\ cycles = 0
  /\ last = NeverRan

----------------------------------------------------------------------------
(* connect *)

\* mutant: the sink is not stored by the time scheduleFn is called
connectStoreSkipped(current, given) == current

\* this.connection = connection, before scheduleFn is called
connectStore(current, given) == given

\* connect: the sink is stored, then scheduleFn hands the refresh function
\* to taskRunner.run, whose promise connect awaits
Connect ==
  /\ ~registered
  /\ connection' = connectStore(connection, "sink")
  /\ registered' = TRUE
  /\ UNCHANGED <<gkeParents, upstream, pc, caller, req, listCalls, results,
                 outOfOrder, stale, mutations, cycleSinkCalls, cycles, last>>

----------------------------------------------------------------------------
(* refresh and the function given to the task runner *)

\* mutant: refresh without its connection check
notInitializedUnchecked(conn) == FALSE

\* if (!this.connection) throw new Error('Not initialized')
notInitialized(conn) == conn = "unset"

\* mutant: the scheduled function without its try/catch
scheduledFnNoCatch(result, error) ==
  [fn |-> IF result = "threw" THEN "rejected" ELSE "completed", logged |-> {}]

\* try { await this.refresh() } catch (error) { this.logger.error(error) }
scheduledFn(result, error) ==
  [fn |-> "completed",
   logged |-> IF result = "threw" THEN {error} ELSE {}]

\* this.gkeParents.map(async parent => ...): every mapper runs up to its
\* await, so every listClusters call is issued before anything is awaited
fanOut(n) == [i \in 1..n |-> "pending"]

\* mutant: the join settles with the first promise that settles
promiseAllFirstSettled(r) ==
  IF \E i \in 1..Len(r) : r[i] = "rejected" THEN "rejected"
  ELSE IF r = <<>> \/ \E i \in 1..Len(r) : r[i] = "resolved" THEN "fulfilled"
  ELSE "pending"

\* Promise.all over the per-parent promises
promiseAll(r) ==
  IF \E i \in 1..Len(r) : r[i] = "rejected" THEN "rejected"
  ELSE IF \A i \in 1..Len(r) : r[i] = "resolved" THEN "fulfilled"
  ELSE "pending"

\* mutant: the values are kept in the order in which the promises settle
storeResultInSettleOrder(res, i, v) ==
  LET k == CHOOSE k \in 1..Len(res) :
             res[k].t = "hole" /\ \A j \in 1..(k - 1) : res[j].t # "hole"
  IN [res EXCEPT ![k] = v]

\* Promise.all keeps each value at the index of its promise
storeResult(res, i, v) == [res EXCEPT ![i] = v]

\* mutant: a failed listing is logged and the refresh goes on to submit
afterGetClustersGoingOn(state) == "submit"

\* try { clusters = await this.getClusters() } catch (e) { log; return }
afterGetClusters(state) == IF state = "rejected" THEN "abort" ELSE "submit"

\* the argument of connection.applyMutation
mutationOf(resources) == [type |-> "full", entities |-> resources]

\* a refresh invoked by `who` ends: it returned or threw
Finish(who, result, why, refreshLogged, error) ==
  /\ last' = IF who = "scheduled"
             THEN LET f == scheduledFn(result, error)
                  IN [caller |-> who, result |-> result, why |-> why,
                      fn |-> f.fn, logged |-> refreshLogged \cup f.logged]
             ELSE [caller |-> who, result |-> result, why |-> why,
                   fn |-> "none", logged |-> refreshLogged]
  /\ pc' = "idle"
  /\ caller' = "none"
  /\ stale' = stale + Cardinality(Pending(req))

\* refresh up to its first await
StartRefresh(who) ==
  /\ pc = "idle"
  /\ cycles < MaxCycles
  /\ cycles' = cycles + 1
  /\ cycleSinkCalls' = 0
  /\ outOfOrder' = FALSE
  /\ results' = NoResults
  /\ IF notInitialized(connection)
     THEN /\ Finish(who, "threw", "notInitialized", {}, "Not initialized")
          /\ listCalls' = NoCalls
          /\ req' = NoRequests
     ELSE /\ pc' = "awaitClusters"
          /\ caller' = who
          /\ req' = fanOut(N)
          /\ listCalls' = [i \in 1..N |-> IF req'[i] = "pending" THEN 1 ELSE 0]
          /\ UNCHANGED <<last, stale>>
  /\ UNCHANGED <<gkeParents, upstream, connection, registered, mutations>>

\* the task runner runs the registered function
ScheduledRun == registered /\ StartRefresh("scheduled")

\* refresh is called on the provider directly
DirectRefresh == StartRefresh("direct")

\* the listClusters promise of parent i settles and its mapper continues
ListSettle(i, ok) ==
  /\ pc = "awaitClusters"
  /\ req[i] = "pending"
  /\ req' = [req EXCEPT ![i] = IF ok THEN "resolved" ELSE "rejected"]
  /\ results' = IF ok
                THEN storeResult(results, i, Arr(listedClusters(upstream[i])))
                ELSE results
  /\ outOfOrder' = (outOfOrder \/ \E j \in 1..(i - 1) : req[j] = "pending")
  /\ UNCHANGED <<gkeParents, upstream, connection, registered, pc,
                 caller, listCalls, stale, mutations, cycleSinkCalls, cycles, last>>

\* refresh continues after await this.getClusters()
RefreshResume ==
  /\ pc = "awaitClusters"
  /\ promiseAll(req) # "pending"
  /\ IF afterGetClusters(promiseAll(req)) = "abort"
     THEN /\ Finish(caller, "returned", "listFailed",
                    {"error fetching GKE clusters"}, "none")
          /\ UNCHANGED <<mutations, cycleSinkCalls, req>>
     ELSE /\ mutations' = Append(mutations, mutationOf(toResources(flat(results))))
          /\ cycleSinkCalls' = cycleSinkCalls + 1
          /\ pc' = "awaitSink"
          /\ UNCHANGED <<caller, req, stale, last>>
  /\ UNCHANGED <<gkeParents, upstream, connection, registered,
                 listCalls, results, outOfOrder, cycles>>

\* the promise of applyMutation settles
SinkSettle(ok) ==
  /\ pc = "awaitSink"
  /\ IF ok
     THEN Finish(caller, "returned", "ok", {}, "none")
     ELSE Finish(caller, "threw", "sinkFailed", {}, "applyMutation rejected")
  /\ UNCHANGED <<gkeParents, upstream, connection, registered, req,
                 listCalls, results, outOfOrder, mutations, cycleSinkCalls, cycles>>

\* a list request of an aborted refresh settles: nothing awaits it any more
StaleSettle ==
  /\ stale > 0
  /\ stale' = stale - 1
  /\ UNCHANGED <<gkeParents, upstream, connection, registered, pc,
                 caller, req, listCalls, results, outOfOrder, mutations,
                 cycleSinkCalls, cycles, last>>

Next ==
  \/ Connect
  \/ ScheduledRun
  \/ DirectRefresh
  \/ \E i \in 1..N, ok \in BOOLEAN : ListSettle(i, ok)
  \/ RefreshResume
  \/ \E ok \in BOOLEAN : SinkSettle(ok)
  \/ StaleSettle

Spec == Init /\ [][Next]_vars

----------------------------------------------------------------------------
(* Vocabulary of the properties *)

\* the refresh that last started has listed (it passed the connection check)
\* and has left its await of getClusters
Listed ==
  \/ pc = "awaitSink"
  \/ pc = "idle" /\ cycles > 0 /\ last.why # "notInitialized"

\* the refresh that last started has ended after listing
Ended == pc = "idle" /\ cycles > 0 /\ last.why # "notInitialized"

SomeRejected == \E i \in 1..N : req[i] = "rejected"
AllResolved == \A i \in 1..N : req[i] = "resolved"

\* the entries of the response of parent i
Entries(i) ==
  IF upstream[i].clusters.t = "array" THEN upstream[i].clusters.items ELSE <<>>

\* the cluster records the API holds: <<parent index, position>>
Records ==
  { p \in UNION { {i} \X (1..Len(Entries(i))) : i \in 1..N } :
      Entries(p[1])[p[2]].t = "object" }

Rec(p) == Entries(p[1])[p[2]]

\* a required field is present: neither absent nor empty
Present(v) == v.t = "string" /\ v.s # ""

Complete(c) ==
  Present(c.name) /\ Present(c.selfLink) /\ Present(c.location) /\ Present(c.endpoint)

Count(seq, e) == Cardinality({ k \in 1..Len(seq) : seq[k] = e })

LastMutation == mutations[Len(mutations)]

\* e is the entity the data model prescribes for the complete record c
EntityFor(e, c) ==
  /\ e.locationKey = "gcp-gke:" \o c.location.s
  /\ e.entity.metadata.name = c.name.s
  /\ e.entity.metadata.annotations["kubernetes.io/api-server"] = "https://" \o c.endpoint.s

\* the entities of the records from position j of parent i onwards, in
\* configuration order and, within a parent, in response order
RECURSIVE InOrder(_, _)
InOrder(i, j) ==
  IF i > N THEN <<>>
  ELSE IF j > Len(Entries(i)) THEN InOrder(i + 1, 1)
  ELSE LET c == Entries(i)[j]
           e == IF c.t = "object" THEN clusterToResource(c) ELSE Undefined
       IN (IF e.t = "object" THEN <<e>> ELSE <<>>) \o InOrder(i, j + 1)

----------------------------------------------------------------------------
(* C1: in a refresh in which a listClusters call rejected, applyMutation is
   never called, whatever the other parents returned and in whatever order
   the calls settled, and the refresh returns normally. *)
C1_AllOrNothing ==
  SomeRejected =>
    /\ cycleSinkCalls = 0
    /\ pc # "awaitSink"
    /\ Ended => last.result = "returned"

\* a refresh ended in which one parent answered and a later one rejected
C1_Witness ==
  /\ Ended
  /\ \E i, j \in 1..N : req[i] = "resolved" /\ req[j] = "rejected"

(* C2: when every list call of a refresh succeeded, the refresh makes exactly
   one applyMutation call, of type "full", whose entities are exactly the
   mapped entities of the valid records (name, selfLink, location and
   endpoint present) of all parents, each as often as it was returned, the
   empty collection included: nothing valid is left out, nothing else added. *)
C2_OneFullSnapshot ==
  (Listed /\ AllResolved) =>
    /\ cycleSinkCalls = 1
    /\ mutations # <<>>
    /\ LastMutation.type = "full"
    /\ LET sent == LastMutation.entities
           valid == { p \in Records : Complete(Rec(p)) }
       IN /\ Len(sent) = Cardinality(valid)
          /\ \A p \in valid :
               Count(sent, clusterToResource(Rec(p)))
                 = Cardinality({ q \in valid :
                     clusterToResource(Rec(q)) = clusterToResource(Rec(p)) })

(* C3: no submitted entity stems from a record that lacks name, selfLink,
   location or endpoint: every entity of every applyMutation call is the
   entity of a record with all four present and non-empty. *)
C3_NoEntityForPartialRecord ==
  \A k \in 1..Len(mutations) :
    \A n \in 1..Len(mutations[k].entities) :
      \E p \in Records :
        /\ Complete(Rec(p))
        /\ EntityFor(mutations[k].entities[n], Rec(p))

(* C4: for every record with name, selfLink, location and endpoint present,
   each successful refresh submits exactly one entity for it, with
   locationKey "gcp-gke:<location>", metadata.name the record's name and the
   API-server annotation "https://<endpoint>". *)
C4_OneEntityPerCompleteRecord ==
  \A k \in 1..Len(mutations) :
    \A p \in Records :
      Complete(Rec(p)) =>
        Cardinality({ n \in 1..Len(mutations[k].entities) :
                        EntityFor(mutations[k].entities[n], Rec(p)) })
          = Cardinality({ q \in Records :
                            /\ Complete(Rec(q))
                            /\ Rec(q).name = Rec(p).name
                            /\ Rec(q).location = Rec(p).location
                            /\ Rec(q).endpoint = Rec(p).endpoint })

\* a snapshot was submitted for a response holding a complete record
C4_Witness ==
  /\ Ended /\ last.why = "ok"
  /\ \E p \in Records : Complete(Rec(p)) /\ Rec(p).caCert.t = "string"
  /\ LastMutation.entities # <<>>

(* C5: the function given to the task runner always completes normally:
   whatever refresh threw (the sink's rejection included) is caught and
   logged, and the runs that follow a failed run call refresh again. *)
C5_ScheduledFnNeverThrows ==
  last.caller = "scheduled" =>
    /\ last.fn = "completed"
    /\ last.result = "threw" => last.logged # {}
    /\ last.why = "listFailed" => "error fetching GKE clusters" \in last.logged

\* after a scheduled run whose applyMutation rejected, the next scheduled
\* run has listed and submitted
C5_Witness ==
  /\ last.caller = "scheduled" /\ last.why = "sinkFailed"
  /\ caller = "scheduled" /\ pc = "awaitSink"

(* C6: a refresh called before connect throws to its caller, issues no
   listClusters call and makes no applyMutation call. *)
C6_RefreshBeforeConnect ==
  connection = "unset" =>
    /\ pc = "idle"
    /\ \A i \in 1..N : listCalls[i] = 0 /\ req[i] = "none"
    /\ mutations = <<>>
    /\ cycles > 0 =>
         /\ last.result = "threw"
         /\ last.fn = "none"
         /\ last.logged = {}

\* refresh was called before connect
C6_Witness == connection = "unset" /\ cycles > 0 /\ N > 0

(* C7: with the configuration and the upstream data unchanged, any two
   applyMutation calls carry structurally identical entities. *)
C7_Idempotent ==
  \A k \in 2..Len(mutations) : mutations[k] = mutations[k - 1]

\* two refreshes have submitted a non-empty snapshot
C7_Witness == Len(mutations) >= 2 /\ LastMutation.entities # <<>>

(* C8: the sink is stored before the refresh function is handed to the task
   runner, so a scheduled refresh always runs with the sink set and never
   ends with 'Not initialized'. *)
C8_ScheduledAfterConnect ==
  /\ registered => connection = "sink"
  /\ caller = "scheduled" => connection = "sink"
  /\ last.caller = "scheduled" => last.why # "notInitialized"

\* a scheduled refresh has ended
C8_Witness == last.caller = "scheduled" /\ last.why = "ok"

(* C9 as stated: one list request per parent, all issued before any is
   awaited, and refresh goes on (to submit, or to abort and return) only
   once every list request has completed. *)
C9_WaitsForAll ==
  /\ pc = "awaitClusters" => \A i \in 1..N : listCalls[i] = 1 /\ req[i] # "none"
  /\ Listed => \A i \in 1..N : listCalls[i] = 1 /\ req[i] # "pending"

(* C9 amended: one list request per parent, all issued before any is
   awaited; refresh submits only once every list request has resolved, and
   it aborts only after a list request has rejected, without waiting for
   the requests that are still pending. *)
C9_FanOutFanIn ==
  /\ pc = "awaitClusters" => \A i \in 1..N : listCalls[i] = 1 /\ req[i] # "none"
  /\ Listed => \A i \in 1..N : listCalls[i] = 1
  /\ (pc = "awaitSink" \/ (Listed /\ cycleSinkCalls > 0)) => AllResolved
  /\ (Ended /\ cycleSinkCalls = 0) => SomeRejected

\* a refresh aborted while a list request was still pending
C9_Witness == Ended /\ last.why = "listFailed" /\ Pending(req) # {}

(* C10: the entities of a snapshot are in the order of the configured
   parents and, within a parent, in the order of the returned records,
   whatever the order in which the list requests settled. *)
C10_ConfiguredOrder ==
  \A k \in 1..Len(mutations) : mutations[k].entities = InOrder(1, 1)

\* a snapshot with entities of two parents whose list requests settled
\* out of order
C10_Witness ==
  /\ pc = "awaitSink" /\ outOfOrder /\ N >= 2
  /\ \A i \in 1..2 : \E p \in Records : p[1] = i /\ Complete(Rec(p))
  /\ clusterToResource(Entries(1)[1]) # clusterToResource(Entries(2)[1])

====
